---- MODULE Spec2Model ----
(***************************************************************************)
(* Model of src/modules/core.py: the pipeline orchestrator (run, start,    *)
(* process_image_to_image, process_image_to_video, destroy), the startup   *)
(* functions (parse_args, handle_deprecated_args, limit_resources) and the *)
(* execution-provider resolution (encode/decode_execution_providers).      *)
(*                                                                         *)
(* Collaborators imported from modules.utilities, modules.ui, the frame    *)
(* processors and the predicter are not part of core.py; each call to one  *)
(* of them is one step whose outcome is chosen by the environment.         *)
(***************************************************************************)
EXTENDS Integers, Sequences, FiniteSets

VARIABLES
    pc,                   \* control point of run() and of the functions it calls
    globals,              \* modules.globals
    requested,            \* args.execution_provider as given on the command line
    available_providers,  \* onnxruntime.get_available_providers()
    args,                 \* the other arguments parse_args reads from the command line
    host,                 \* platform.system() and the RLIMIT_DATA limits of the process
    printed,              \* the warnings printed during startup
    sigint,               \* TRUE once signal.signal(SIGINT, ...) has run
    i,                    \* index of the frame processor a loop is at
    temp,                 \* targets whose temp workspace directory exists
    frames,               \* number of frame files in the workspace
    temp_video,           \* the assembled temp video: "none" or its fps
    output,               \* the file at output_path
    log,                  \* collaborator calls and status messages of the current start()
    job,                  \* state of the current job
    valid_media,          \* TRUE when the target file holds valid media of its kind
    exit                  \* how the process ended, "none" while it runs

vars == <<pc, globals, requested, available_providers, args, host, printed, sigint, i, temp, frames,
          temp_video, output, log, job, valid_media, exit>>

\* ------------------------------------------------------------------ bounds
MaxProcessors == 2   \* longest --frame-processor chain
MaxFrames == 2       \* most frames extract_frames produces
MaxHost == 2         \* longest host provider list
MaxReq == 2          \* longest requested provider list
MaxThreads == 2      \* largest thread count given on the command line
MaxMemory == 3       \* largest --max-memory, in GB
MaxHard == 4         \* largest finite RLIMIT_DATA hard limit, in GB

Range(s) == {s[k] : k \in DOMAIN s}
SeqsUpTo(S, n) == UNION {[1..k -> S] : k \in 0..n}
Distinct(s) == \A a, b \in DOMAIN s : a # b => s[a] # s[b]

\* ------------------------------------------------- execution provider names
\* A provider name is its stem, the case it is written in ("mixed" is the
\* vendor spelling, e.g. CUDA, Dml, CoreML) and its suffix: "EP" is the exact
\* text 'ExecutionProvider', "ep" the same text in lower case.
Stems == {"cpu", "cuda", "rocm", "dml", "coreml"}
Name(stem, case, suffix) == [stem |-> stem, case |-> case, suffix |-> suffix]
HostName(stem) == Name(stem, "mixed", "EP")
CPUExecutionProvider == HostName("cpu")

\* str.replace('ExecutionProvider', ''): removes the exact text only
Replace(n) == IF n.suffix = "EP" THEN [n EXCEPT !.suffix = "none"] ELSE n
\* str.lower()
Lower(n) == [n EXCEPT !.case = "lower", !.suffix = IF @ = "EP" THEN "ep" ELSE @]

encode_execution_providers(execution_providers) ==
    [k \in DOMAIN execution_providers |-> Lower(Replace(execution_providers[k]))]

\* list.index: the first position holding x
Index(s, x) == CHOOSE k \in DOMAIN s : s[k] = x /\ \A m \in 1..(k - 1) : s[m] # x

SelectedProviders(execution_providers, available) ==
    LET encoded_providers == encode_execution_providers(available)
        kept == SelectSeq(execution_providers, LAMBDA req : req \in Range(encoded_providers))
    IN  [k \in DOMAIN kept |-> available[Index(encoded_providers, kept[k])]]

DecodeHostOrder(execution_providers, available) ==
    LET selected == SelectSeq(available, LAMBDA h : Lower(Replace(h)) \in Range(execution_providers))
    IN  IF selected # <<>> THEN selected ELSE <<CPUExecutionProvider>>

decode_execution_providers(execution_providers, available) ==
    LET selected_providers == SelectedProviders(execution_providers, available)
    IN  IF selected_providers # <<>> THEN selected_providers ELSE <<CPUExecutionProvider>>

\* argparse choices=suggest_execution_providers()
suggest_execution_providers(available) == encode_execution_providers(available)

HostLists == {h \in SeqsUpTo({HostName(s) : s \in Stems}, MaxHost) : Distinct(h)}
RequestNames == {Name(s, "lower", "none") : s \in Stems}
                    \cup {Name(s, "mixed", "none") : s \in Stems}
                    \cup {HostName(s) : s \in Stems}
RequestLists == SeqsUpTo(RequestNames, MaxReq)


\* release_resources(), line 187: `'cuda' in modules.globals.execution_providers`
ReleasesCache(execution_providers) ==
    Name("cuda", "lower", "none") \in Range(execution_providers)

\* suggest_execution_threads(), lines 152-157, reading the list it is given
suggest_execution_threads(execution_providers) ==
    IF Name("dml", "lower", "none") \in Range(execution_providers) THEN 1
    ELSE IF Name("rocm", "lower", "none") \in Range(execution_providers) THEN 1
    ELSE 8

\* suggest_max_memory(), lines 144-145
suggest_max_memory(system) == IF system = "darwin" THEN 4 ELSE 16

\* ------------------------------------------------- the command line, the host
\* An optional integer argument is <<>> when it is not given and <<n>> when
\* it is; an optional string is NoPath when it is not given.
NoArgs == [source_path_deprecated |-> "None", cpu_cores_deprecated |-> <<>>,
           gpu_vendor_deprecated |-> "None", gpu_threads_deprecated |-> <<>>,
           execution_threads |-> <<>>, max_memory |-> <<>>]
OptionalCounts == {<<>>} \cup {<<n>> : n \in {0, MaxThreads}}
ArgSets == [source_path_deprecated : {"None", "", "face.jpg"},
            cpu_cores_deprecated : OptionalCounts,
            gpu_vendor_deprecated : {"None", "apple", "nvidia", "amd", "intel"},
            gpu_threads_deprecated : OptionalCounts,
            execution_threads : {<<>>, <<MaxThreads>>},
            max_memory : {<<>>}]
\* Python truth value of an optional string and of an optional integer
TruthyStr(value) == value \notin {"None", ""}
TruthyInt(value) == value # <<>> /\ value[1] # 0

\* 1024 ** 3 bytes (line 168), counted in units of 2^20 bytes
GiB == 1024
Unlimited == -1      \* resource.RLIM_INFINITY as getrlimit reports it
Systems == {"linux", "darwin", "windows"}
HardLimits == {Unlimited} \cup {n * GiB : n \in 1..MaxHard}
\* applied: <<>> until a limit is set, then <<the limit>>
DefaultHost == [system |-> "linux", hard |-> Unlimited, applied |-> <<>>]

\* ---------------------------------------------------------------- the job
NoPath == "None"
ImageTargets == {"photo.png"}     \* paths with an image extension
VideoTargets == {"clip.mp4"}
TargetPaths == ImageTargets \cup VideoTargets
SourcePath == "source.jpg"
ProcessorNames == {"face_swapper", "face_enhancer"}
\* --frame-processor chains; each processor is named once
Chains == {c \in SeqsUpTo(ProcessorNames, MaxProcessors) : c # <<>> /\ Distinct(c)}
DetectedFps == {"25.0", "30.0"}                 \* results of detect_fps
DefaultFps == "30.0"                            \* create_video's default rate
Flags == {"keep_fps", "keep_audio", "keep_frames", "nsfw"}

\* modules.utilities, as the specification describes them
has_image_extension(path) == path \in ImageTargets
is_image(path) == path \in ImageTargets /\ valid_media
is_video(path) == path \in VideoTargets /\ valid_media

Ev(op, who, arg) == [op |-> op, who |-> who, arg |-> arg]
Core == "DLC.CORE"
Status(message) == Ev("status", Core, message)
Called(op) == \E k \in DOMAIN log : log[k].op = op
Count(op) == Cardinality({k \in DOMAIN log : log[k].op = op})
Reported(message) == \E k \in DOMAIN log : log[k].op = "status" /\ log[k].arg = message

Running == exit = "none"

\* clean_temp(target_path): removes the workspace of the target unless
\* keep_frames is set; a target without a workspace is left as it is.
clean_temp(target_path, dirs) ==
    IF globals.keep_frames THEN dirs ELSE dirs \ {target_path}

\* What a workspace held is gone with it; cleaning a target that has no
\* workspace leaves the files of the other workspaces alone.
WorkspaceAfterClean(dirs, value, empty) ==
    IF dirs = temp THEN value ELSE empty

\* The effect of clean_temp(modules.globals.target_path) on the file system.
CleanCurrent ==
    /\ temp' = clean_temp(globals.target_path, temp)
    /\ frames' = WorkspaceAfterClean(temp', frames, 0)
    /\ temp_video' = WorkspaceAfterClean(temp', temp_video, "none")

DestroySkipsClean(target_path) == FALSE

\* destroy(): the `if modules.globals.target_path:` test
DestroyCleans(target_path) == target_path # NoPath

\* destroy(to_quit): clean_temp for the current target when one is set
DestroyFiles ==
    IF DestroyCleans(globals.target_path)
        THEN CleanCurrent
        ELSE UNCHANGED <<temp, frames, temp_video>>

DestroyLog(l) ==
    IF DestroyCleans(globals.target_path)
        THEN Append(l, Ev("clean_temp", Core, globals.target_path))
        ELSE l

Init ==
    /\ pc = "run"
    /\ globals = [target_path |-> NoPath, frame_processors |-> <<>>, headless |-> FALSE,
                  keep_fps |-> FALSE, keep_audio |-> FALSE, keep_frames |-> FALSE,
                  nsfw |-> FALSE, execution_providers |-> <<>>,
                  source_path |-> NoPath, execution_threads |-> 0,
                  max_memory |-> 0]
    /\ requested = <<>>
    /\ available_providers = <<HostName("cuda"), HostName("cpu")>>
    /\ args = NoArgs
    /\ host = DefaultHost
    /\ printed = <<>>
    /\ sigint = FALSE
    /\ i = 1
    /\ temp = {}
    /\ frames = 0
    /\ temp_video = "none"
    /\ output = "absent"
    /\ log = <<>>
    /\ job = "none"
    /\ valid_media \in BOOLEAN
    /\ exit = "none"

\* ------------------------------------------------------------- run()
\* parse_args, line 48: the interrupt handler is installed first
ParseArgsBegin ==
    /\ pc = "run"
    /\ pc' = "parse_args"
    /\ sigint' = TRUE
    /\ UNCHANGED <<globals, requested, available_providers, args, host, printed, i, temp, frames,
                   temp_video, output, log, job, valid_media, exit>>

\* parse_args, lines 49-102: the parsed arguments are stored in modules.globals.
\* headless is set when a source, target or output path is given; without a
\* target the paths are chosen in the window. --keep-audio is store_true with
\* default True, and nsfw is set to False.
ParseArgs ==
    /\ pc = "parse_args"
    /\ \E headless \in BOOLEAN, target \in TargetPaths, chain \in Chains,
          keep_fps \in BOOLEAN, keep_frames \in BOOLEAN,
          req \in {<<c>> : c \in Range(suggest_execution_providers(available_providers))} :
          /\ requested' = req
          /\ globals' = [target_path |-> IF headless THEN target ELSE NoPath,
                         frame_processors |-> chain,
                         headless |-> headless,
                         keep_fps |-> keep_fps,
                         keep_audio |-> TRUE,
                         keep_frames |-> keep_frames,
                         nsfw |-> FALSE,
                         execution_providers |->
                             decode_execution_providers(req, available_providers),
                         source_path |-> IF headless THEN SourcePath ELSE NoPath,
                         execution_threads |->
                             IF args.execution_threads = <<>>
                                THEN suggest_execution_threads(globals.execution_providers)
                                ELSE args.execution_threads[1],
                         max_memory |->
                             IF args.max_memory = <<>>
                                THEN suggest_max_memory(host.system)
                                ELSE args.max_memory[1]]
    /\ pc' = "handle_deprecated_args"
    /\ UNCHANGED <<available_providers, args, host, printed, sigint, i, temp, frames,
                   temp_video, output, log, job, valid_media, exit>>

\* --gpu-vendor values handle_deprecated_args knows (lines 115-123)
VendorProvider(vendor) ==
    CASE vendor = "apple" -> "coreml"
      [] vendor = "nvidia" -> "cuda"
      [] vendor = "amd" -> "rocm"
Vendors == {"apple", "nvidia", "amd"}

\* handle_deprecated_args(), lines 107-126: the four tests in their order
DeprecatedSource(g) ==
    IF TruthyStr(args.source_path_deprecated)
        THEN [g EXCEPT !.source_path = args.source_path_deprecated] ELSE g
DeprecatedCores(g) ==
    IF TruthyInt(args.cpu_cores_deprecated)
        THEN [g EXCEPT !.execution_threads = args.cpu_cores_deprecated[1]] ELSE g
DeprecatedVendor(g) ==
    IF args.gpu_vendor_deprecated \in Vendors
        THEN [g EXCEPT !.execution_providers =
                 decode_execution_providers(
                     <<Name(VendorProvider(args.gpu_vendor_deprecated), "lower", "none")>>,
                     available_providers)]
        ELSE g
DeprecatedThreads(g) ==
    IF TruthyInt(args.gpu_threads_deprecated)
        THEN [g EXCEPT !.execution_threads = args.gpu_threads_deprecated[1]] ELSE g
DeprecationWarnings ==
    (IF TruthyStr(args.source_path_deprecated) THEN <<"-f and --face are deprecated">> ELSE <<>>)
    \o (IF TruthyInt(args.cpu_cores_deprecated) THEN <<"--cpu-cores is deprecated">> ELSE <<>>)
    \o (IF args.gpu_vendor_deprecated \in Vendors THEN <<"--gpu-vendor is deprecated">> ELSE <<>>)
    \o (IF TruthyInt(args.gpu_threads_deprecated) THEN <<"--gpu-threads is deprecated">> ELSE <<>>)

\* parse_args, line 102
HandleDeprecatedArgs ==
    /\ pc = "handle_deprecated_args"
    /\ globals' = DeprecatedThreads(DeprecatedVendor(DeprecatedCores(DeprecatedSource(globals))))
    /\ printed' = printed \o DeprecationWarnings
    /\ pc' = "pre_check"
    /\ UNCHANGED <<requested, available_providers, args, host, sigint, i, temp, frames,
                   temp_video, output, log, job, valid_media, exit>>

Return ==
    /\ pc' = "exited"
    /\ exit' = "returned"

\* pre_check() and each frame processor's pre_check(): run() returns when one fails
PreCheck ==
    /\ pc = "pre_check"
    /\ \E ok \in BOOLEAN :
          IF ok THEN pc' = "limit_resources" /\ exit' = exit
                ELSE Return
    /\ UNCHANGED <<globals, requested, available_providers, args, host, printed, sigint, i, temp, frames,
                   temp_video, output, log, job, valid_media>>

\* limit_resources(), lines 167-184. Nothing is applied without a ceiling or
\* on darwin; windows sets the working set size; elsewhere the ceiling is
\* compared with the hard limit getrlimit reports and setrlimit is called
\* with the ceiling or, after the warning, with the hard limit.
ClampWarning == "Requested memory limit exceeds system's hard limit"
Clamps(memory, hard) == memory > hard
LimitApplied(max_memory, system, hard) ==
    LET memory == max_memory * GiB IN
    IF max_memory = 0 \/ system = "darwin" THEN <<>>
    ELSE IF system = "windows" THEN <<memory>>
    ELSE IF Clamps(memory, hard) THEN <<hard>> ELSE <<memory>>
LimitWarnings(max_memory, system, hard) ==
    IF max_memory # 0 /\ system = "linux" /\ Clamps(max_memory * GiB, hard)
        THEN <<ClampWarning>> ELSE <<>>

\* limit_resources(), then start() in headless mode or the window's main loop
LimitResources ==
    /\ pc = "limit_resources"
    /\ host' = [host EXCEPT !.applied =
                    LimitApplied(globals.max_memory, host.system, host.hard)]
    /\ printed' = printed \o LimitWarnings(globals.max_memory, host.system, host.hard)
    /\ pc' = IF globals.headless THEN "start" ELSE "mainloop"
    /\ UNCHANGED <<globals, requested, available_providers, args, sigint, i, temp, frames,
                   temp_video, output, log, job, valid_media, exit>>


\* ------------------------------------------------------------- start()
\* An exception raised inside start() in headless mode unwinds to the except
\* clause of run() (lines 305, 314, 318).
Unwind ==
    /\ pc' = "except"
    /\ job' = job
    /\ exit' = exit

\* In window mode start() runs as a callback of the main loop (line 316): a
\* failing job does not end the process, the loop reports the exception and
\* keeps running, and no statement of run() is reached.
CallbackFails ==
    /\ pc' = "mainloop"
    /\ job' = "Failed"
    /\ exit' = exit

Raise == IF globals.headless THEN Unwind ELSE CallbackFails

\* start() returns: run() returns in headless mode, the main loop goes on otherwise
StartReturns(state) ==
    /\ job' = state
    /\ IF globals.headless THEN Return ELSE pc' = "mainloop" /\ exit' = exit

EnterStart ==
    /\ pc' = "pre_start"
    /\ i' = 1
    /\ log' = <<>>
    /\ job' = "running"

StartResolvesAgain ==
    /\ pc = "start"
    /\ EnterStart
    /\ globals' = [globals EXCEPT !.execution_providers = <<CPUExecutionProvider>>]
    /\ UNCHANGED <<requested, available_providers, args, host, printed, sigint, temp,
                   frames, temp_video, output, valid_media, exit>>

\* run(), line 314
Start ==
    /\ pc = "start"
    /\ EnterStart
    /\ UNCHANGED <<globals, requested, available_providers, args, host, printed, sigint, temp, frames,
                   temp_video, output, valid_media, exit>>

PreStartIgnored(ready) == TRUE

\* start(), line 212: `if not frame_processor.pre_start(): return`
PreStartPasses(ready) == ready

\* start(), lines 211-213: the readiness check of processor i
PreStart ==
    /\ pc = "pre_start"
    /\ \E ready \in BOOLEAN :
          /\ log' = Append(log, Ev("pre_start", globals.frame_processors[i],
                                   IF ready THEN "ready" ELSE "not ready"))
          /\ IF PreStartPasses(ready)
                THEN /\ job' = job /\ exit' = exit
                     /\ IF i < Len(globals.frame_processors)
                           THEN pc' = pc /\ i' = i + 1
                           ELSE pc' = "dispatch" /\ i' = 1
                ELSE /\ StartReturns("Failed")
                     /\ i' = i
    /\ UNCHANGED <<globals, requested, available_providers, args, host, printed, sigint, temp, frames,
                   temp_video, output, valid_media>>

EntersVideoPathAlways(target_path) == "process_image_to_video"

\* start(), lines 216-221: the path is chosen by has_image_extension alone
EntersPath(target_path) ==
    IF has_image_extension(target_path)
        THEN "process_image_to_image" ELSE "process_image_to_video"

\* start(), lines 216-221
Dispatch ==
    /\ pc = "dispatch"
    /\ pc' = EntersPath(globals.target_path)
    /\ UNCHANGED <<globals, requested, available_providers, args, host, printed, sigint, i, temp, frames,
                   temp_video, output, log, job, valid_media, exit>>


\* ------------------------------------------------ process_image_to_image()
\* The content-safety check: called only when nsfw is set
Predicted(predict, flagged) ==
    IF globals.nsfw
        THEN Append(log, Ev(predict, Core, IF flagged THEN "flagged" ELSE "clear"))
        ELSE log

QuitsAlways(to_quit) == TRUE

\* destroy(), lines 300-301: `if to_quit: quit()`
Quits(to_quit) == to_quit

\* lines 227-230 and 251-254: destroy(to_quit=False), the status, return
Ignored(predict, message) ==
    /\ DestroyFiles
    /\ IF Quits(FALSE)
          THEN /\ log' = DestroyLog(Predicted(predict, TRUE))
               /\ job' = "Cancelled"
               /\ pc' = "exited"
               /\ exit' = "quit"
          ELSE /\ log' = Append(DestroyLog(Predicted(predict, TRUE)), Status(message))
               /\ StartReturns("Cancelled")

PredictSkipped(flagged) == FALSE

\* lines 225-227 and 249-251: the content-safety check runs when nsfw is set
ShortCircuits(flagged) == globals.nsfw /\ flagged

\* lines 225-230: destroy(to_quit=False), the 'ignored' status, return
ImagePredict ==
    /\ pc = "process_image_to_image"
    /\ \E flagged \in BOOLEAN :
          IF ShortCircuits(flagged)
             THEN Ignored("predict_image", "Processing to image ignored!")
             ELSE /\ pc' = "copy"
                  /\ log' = Predicted("predict_image", flagged)
                  /\ UNCHANGED <<temp, frames, temp_video, job, exit>>
    /\ UNCHANGED <<globals, requested, available_providers, args, host, printed, sigint, i, output, valid_media>>

AbortsOnCopyError(ok) == IF ok THEN "process_image" ELSE "image_status"

\* lines 234-237: `except Exception as e: print(...)`, then the processor loop
AfterCopy(ok) == "process_image"

\* lines 232-235: shutil.copy2; an error is printed and the function goes on
CopyTarget ==
    /\ pc = "copy"
    /\ \E ok \in BOOLEAN :
          /\ log' = Append(log, Ev("copy2", Core, IF ok THEN "ok" ELSE "error"))
          /\ output' = IF ~ok THEN output
                       ELSE IF is_image(globals.target_path) THEN "image" ELSE "invalid"
          /\ pc' = AfterCopy(ok)
    /\ i' = 1
    /\ UNCHANGED <<globals, requested, available_providers, args, host, printed, sigint, temp, frames,
                   temp_video, job, valid_media, exit>>

ProcessorRoundReversed(entry, ok) ==
    LET name == globals.frame_processors[Len(globals.frame_processors) + 1 - i]
        called == log \o <<Ev("status", name, "Processing..."),
                           Ev(entry, name, IF ok THEN "ok" ELSE "raised")>>
    IN  IF ok THEN Append(called, Ev("release_resources", Core, name)) ELSE called

\* The steps of one round of a processor loop (lines 238-240 and 262-264):
\* the scoped status, the entry point and, when it returns, release_resources().
ProcessorRound(entry, ok) ==
    LET name == globals.frame_processors[i]
        called == log \o <<Ev("status", name, "Processing..."),
                           Ev(entry, name, IF ok THEN "ok" ELSE "raised")>>
        released == Append(called, Ev("release_resources", Core, name))
    IN  IF ~ok THEN called
        ELSE IF ReleasesCache(globals.execution_providers)
                THEN Append(released, Ev("empty_cache", Core, name))
                ELSE released

\* lines 237-240: processor i works on the output file in place
ProcessImage ==
    /\ pc = "process_image"
    /\ \E ok \in BOOLEAN :
          /\ log' = ProcessorRound("process_image", ok)
          /\ IF ok
                THEN /\ job' = job /\ exit' = exit
                     /\ IF i < Len(globals.frame_processors)
                           THEN pc' = pc /\ i' = i + 1
                           ELSE pc' = "image_status" /\ i' = 1
                ELSE Raise /\ i' = i
    /\ UNCHANGED <<globals, requested, available_providers, args, host, printed, sigint, temp, frames,
                   temp_video, output, valid_media>>

\* lines 242-245: the final status is decided by is_image(target_path)
ImageStatus ==
    /\ pc = "image_status"
    /\ IF is_image(globals.target_path)
          THEN /\ log' = Append(log, Status("Processing to image succeeded!"))
               /\ StartReturns("Done")
          ELSE /\ log' = Append(log, Status("Processing to image failed!"))
               /\ StartReturns("Failed")
    /\ UNCHANGED <<globals, requested, available_providers, args, host, printed, sigint, i, temp, frames,
                   temp_video, output, valid_media>>

\* ------------------------------------------------ process_image_to_video()
\* lines 249-254
VideoPredict ==
    /\ pc = "process_image_to_video"
    /\ \E flagged \in BOOLEAN :
          IF ShortCircuits(flagged)
             THEN Ignored("predict_video", "Processing to video ignored!")
             ELSE /\ pc' = "create_temp"
                  /\ log' = Predicted("predict_video", flagged)
                  /\ UNCHANGED <<temp, frames, temp_video, job, exit>>
    /\ UNCHANGED <<globals, requested, available_providers, args, host, printed, sigint, i, output, valid_media>>

\* lines 256-257: create_temp(target_path) makes the workspace or raises
CreateTemp ==
    /\ pc = "create_temp"
    /\ \E ok \in BOOLEAN :
          /\ log' = log \o <<Status("Creating temporary resources..."),
                             Ev("create_temp", Core, IF ok THEN "ok" ELSE "raised")>>
          /\ IF ok
                THEN /\ temp' = temp \cup {globals.target_path}
                     /\ pc' = "extract_frames"
                     /\ job' = job /\ exit' = exit
                ELSE /\ temp' = temp
                     /\ Raise
    /\ UNCHANGED <<globals, requested, available_providers, args, host, printed, sigint, i, frames,
                   temp_video, output, valid_media>>

\* lines 258-259: extract_frames(target_path) writes the frame files or raises
ExtractFrames ==
    /\ pc = "extract_frames"
    /\ \E ok \in BOOLEAN, n \in 0..MaxFrames :
          /\ log' = log \o <<Status("Extracting frames..."),
                             Ev("extract_frames", Core, IF ok THEN "ok" ELSE "raised")>>
          /\ IF ok
                THEN /\ frames' = n
                     /\ pc' = "get_temp_frame_paths"
                     /\ job' = job /\ exit' = exit
                ELSE /\ frames' = frames
                     /\ Raise
    /\ UNCHANGED <<globals, requested, available_providers, args, host, printed, sigint, i, temp,
                   temp_video, output, valid_media>>

\* line 260: get_temp_frame_paths(target_path) lists the frames in index
\* order and fails when extraction produced nothing
GetTempFramePaths ==
    /\ pc = "get_temp_frame_paths"
    /\ log' = Append(log, Ev("get_temp_frame_paths", Core,
                             IF frames > 0 THEN "ok" ELSE "raised"))
    /\ IF frames > 0
          THEN /\ pc' = "process_video"
               /\ job' = job /\ exit' = exit
          ELSE Raise
    /\ i' = 1
    /\ UNCHANGED <<globals, requested, available_providers, args, host, printed, sigint, temp, frames,
                   temp_video, output, valid_media>>

\* lines 261-264: processor i works on the frame files in place
ProcessVideo ==
    /\ pc = "process_video"
    /\ \E ok \in BOOLEAN :
          /\ log' = ProcessorRound("process_video", ok)
          /\ IF ok
                THEN /\ job' = job /\ exit' = exit
                     /\ IF i < Len(globals.frame_processors)
                           THEN pc' = pc /\ i' = i + 1
                           ELSE pc' = "handle_video_fps" /\ i' = 1
                ELSE Raise /\ i' = i
    /\ UNCHANGED <<globals, requested, available_providers, args, host, printed, sigint, temp, frames,
                   temp_video, output, valid_media>>


EncodeAtDefault(keep_fps, detected) == DefaultFps

\* handle_video_fps(): the rate create_video is called with
EncodeFps(keep_fps, detected) == IF keep_fps THEN detected ELSE DefaultFps

\* lines 276-284: detect_fps only under keep_fps, then one create_video call,
\* which writes the temp video, fails without raising, or raises
HandleVideoFps ==
    /\ pc = "handle_video_fps"
    /\ \E detected \in DetectedFps, result \in {"ok", "failed", "raised"} :
          LET fps == EncodeFps(globals.keep_fps, detected) IN
          /\ log' = log \o
                (IF globals.keep_fps
                    THEN <<Status("Detecting fps..."),
                           Ev("detect_fps", Core, detected),
                           Status("Creating video with detected fps...")>>
                    ELSE <<Status("Creating video with 30.0 fps...")>>)
                \o <<Ev("create_video", Core, fps)>>
          /\ temp_video' = IF result = "ok" THEN fps ELSE temp_video
          /\ IF result = "raised"
                THEN Raise
                ELSE pc' = "handle_video_audio" /\ job' = job /\ exit' = exit
    /\ UNCHANGED <<globals, requested, available_providers, args, host, printed, sigint, i, temp, frames,
                   output, valid_media>>

AlwaysRestoreAudio(keep_audio) == "restore_audio"

\* handle_video_audio(): the output step chosen by keep_audio
AudioStep(keep_audio) == IF keep_audio THEN "restore_audio" ELSE "move_temp"

\* lines 287-295: restore_audio muxes the audio into the output file (a mux
\* failure is logged by the toolkit and the job goes on), move_temp moves the
\* temp video to the output path; either may raise
HandleVideoAudio ==
    /\ pc = "handle_video_audio"
    /\ \E result \in {"ok", "failed", "raised"} :
          LET step == AudioStep(globals.keep_audio) IN
          /\ step = "move_temp" => result # "failed"
          /\ log' = log \o
                (IF step = "restore_audio"
                    THEN <<Status(IF globals.keep_fps
                                     THEN "Restoring audio..."
                                     ELSE "Restoring audio might cause issues as fps are not kept...")>>
                    ELSE <<>>)
                \o <<Ev(step, Core, result)>>
          /\ output' = IF result = "ok" /\ temp_video # "none" THEN "video" ELSE output
          /\ temp_video' = IF result = "ok" /\ step = "move_temp" THEN "none" ELSE temp_video
          /\ IF result = "raised"
                THEN Raise
                ELSE pc' = "clean_temp" /\ job' = job /\ exit' = exit
    /\ UNCHANGED <<globals, requested, available_providers, args, host, printed, sigint, i, temp, frames,
                   valid_media>>

\* line 268
CleanTemp ==
    /\ pc = "clean_temp"
    /\ CleanCurrent
    /\ log' = Append(log, Ev("clean_temp", Core, globals.target_path))
    /\ pc' = "video_status"
    /\ UNCHANGED <<globals, requested, available_providers, args, host, printed, sigint, i, output, job,
                   valid_media, exit>>

\* lines 270-273: the final status is decided by is_video(target_path)
VideoStatus ==
    /\ pc = "video_status"
    /\ IF is_video(globals.target_path)
          THEN /\ log' = Append(log, Status("Processing to video succeeded!"))
               /\ StartReturns("Done")
          ELSE /\ log' = Append(log, Status("Processing to video failed!"))
               /\ StartReturns("Failed")
    /\ UNCHANGED <<globals, requested, available_providers, args, host, printed, sigint, i, temp, frames,
                   temp_video, output, valid_media>>

\* ------------------------------------------------- the ways the process ends
\* destroy() with to_quit=True: clean_temp for the target, then quit()
\* destroy() with the default to_quit=True
Destroy(how) ==
    /\ DestroyFiles
    /\ Quits(TRUE)
    /\ pc' = "exited"
    /\ exit' = how

\* run(), lines 318-321: the except clause reports the failure and calls destroy()
Except ==
    /\ pc = "except"
    /\ log' = DestroyLog(Append(log, Status("UI initialization failed")))
    /\ job' = "Failed"
    /\ Destroy("failed")
    /\ UNCHANGED <<globals, requested, available_providers, args, host, printed, sigint, i, output, valid_media>>

\* SIGINT: the handler installed by parse_args calls destroy()
Interrupt ==
    /\ sigint
    /\ Running
    /\ log' = DestroyLog(log)
    /\ job' = IF job = "running" THEN "Cancelled" ELSE job
    /\ Destroy("cancelled")
    /\ UNCHANGED <<globals, requested, available_providers, args, host, printed, sigint, i, output, valid_media>>

\* ------------------------------------------------- ui.init(start, destroy)
\* The window calls start when a job is launched and destroy when it is
\* closed; between jobs the target and the switches can be changed.
UIStart ==
    /\ pc = "mainloop"
    /\ globals.target_path # NoPath
    /\ EnterStart
    /\ UNCHANGED <<globals, requested, available_providers, args, host, printed, sigint, temp, frames,
                   temp_video, output, valid_media, exit>>

UISelectTarget ==
    /\ pc = "mainloop"
    /\ \E t \in TargetPaths : globals' = [globals EXCEPT !.target_path = t]
    /\ log' = <<>>
    /\ job' = "none"
    /\ UNCHANGED <<pc, requested, available_providers, args, host, printed, sigint, i, temp, frames,
                   temp_video, output, valid_media, exit>>

UIToggle ==
    /\ pc = "mainloop"
    /\ \E f \in Flags : globals' = [globals EXCEPT ![f] = ~@]
    /\ log' = <<>>
    /\ job' = "none"
    /\ UNCHANGED <<pc, requested, available_providers, args, host, printed, sigint, i, temp, frames,
                   temp_video, output, valid_media, exit>>

UIClose ==
    /\ pc = "mainloop"
    /\ log' = DestroyLog(log)
    /\ Destroy("closed")
    /\ UNCHANGED <<globals, requested, available_providers, args, host, printed, sigint, i, output, job,
                   valid_media>>

Next ==
    \/ ParseArgsBegin \/ ParseArgs \/ HandleDeprecatedArgs \/ PreCheck \/ LimitResources
    \/ Start \/ PreStart \/ Dispatch
    \/ ImagePredict \/ CopyTarget \/ ProcessImage \/ ImageStatus
    \/ VideoPredict \/ CreateTemp \/ ExtractFrames \/ GetTempFramePaths
    \/ ProcessVideo \/ HandleVideoFps \/ HandleVideoAudio \/ CleanTemp \/ VideoStatus
    \/ Except \/ Interrupt
    \/ UIStart \/ UISelectTarget \/ UIToggle \/ UIClose

Spec == Init /\ [][Next]_vars


\* ------------------------------------- resolution of the execution providers
\* decode_execution_providers applied to every requested list and host list
InitResolve ==
    /\ pc = "decode"
    /\ globals = [target_path |-> NoPath, frame_processors |-> <<>>, headless |-> FALSE,
                  keep_fps |-> FALSE, keep_audio |-> FALSE, keep_frames |-> FALSE,
                  nsfw |-> FALSE, execution_providers |-> <<>>,
                  source_path |-> NoPath, execution_threads |-> 0,
                  max_memory |-> 0]
    /\ requested \in RequestLists
    /\ available_providers \in HostLists
    /\ args = NoArgs
    /\ host = DefaultHost
    /\ printed = <<>>
    /\ sigint = FALSE
    /\ i = 1
    /\ temp = {}
    /\ frames = 0
    /\ temp_video = "none"
    /\ output = "absent"
    /\ log = <<>>
    /\ job = "none"
    /\ valid_media = TRUE
    /\ exit = "none"

\* line 93: modules.globals.execution_providers = decode_execution_providers(...)
Resolve ==
    /\ pc = "decode"
    /\ pc' = "decoded"
    /\ globals' = [globals EXCEPT !.execution_providers =
                      decode_execution_providers(requested, available_providers)]
    /\ UNCHANGED <<requested, available_providers, args, host, printed, sigint, i, temp, frames, temp_video,
                   output, log, job, valid_media, exit>>

NextResolve == Resolve

SpecResolve == InitResolve /\ [][NextResolve]_vars

\* ------------------------------------------------ parse_args on its own
\* The command lines of ArgSets on hosts with one accelerator next to the CPU.
ArgHosts == {<<HostName(stem), CPUExecutionProvider>> : stem \in Stems \ {"cpu"}}

InitArgs ==
    /\ pc = "run"
    /\ globals = [target_path |-> NoPath, frame_processors |-> <<>>, headless |-> FALSE,
                  keep_fps |-> FALSE, keep_audio |-> FALSE, keep_frames |-> FALSE,
                  nsfw |-> FALSE, execution_providers |-> <<>>,
                  source_path |-> NoPath, execution_threads |-> 0,
                  max_memory |-> 0]
    /\ requested = <<>>
    /\ available_providers \in ArgHosts
    /\ args \in ArgSets
    /\ host = DefaultHost
    /\ printed = <<>>
    /\ sigint = FALSE
    /\ i = 1
    /\ temp = {}
    /\ frames = 0
    /\ temp_video = "none"
    /\ output = "absent"
    /\ log = <<>>
    /\ job = "none"
    /\ valid_media = TRUE
    /\ exit = "none"

NextArgs == ParseArgsBegin \/ ParseArgs \/ HandleDeprecatedArgs

SpecArgs == InitArgs /\ [][NextArgs]_vars

\* --------------------------------------------- limit_resources on its own
\* run() at line 312 after `--max-memory n`, on every platform and hard limit.
InitLimits ==
    /\ pc = "limit_resources"
    /\ \E n \in 0..MaxMemory, headless \in BOOLEAN, target \in TargetPaths :
          /\ args = [NoArgs EXCEPT !.max_memory = <<n>>]
          /\ globals = [target_path |-> IF headless THEN target ELSE NoPath,
                        frame_processors |-> <<"face_swapper">>,
                        headless |-> headless,
                        keep_fps |-> FALSE, keep_audio |-> TRUE, keep_frames |-> FALSE,
                        nsfw |-> FALSE,
                        execution_providers |-> <<CPUExecutionProvider>>,
                        source_path |-> IF headless THEN SourcePath ELSE NoPath,
                        execution_threads |-> suggest_execution_threads(<<>>),
                        max_memory |-> n]
    /\ requested = <<Name("cpu", "lower", "none")>>
    /\ available_providers = <<CPUExecutionProvider>>
    /\ host \in [system : Systems, hard : HardLimits, applied : {<<>>}]
    /\ printed = <<>>
    /\ sigint = TRUE
    /\ i = 1
    /\ temp = {}
    /\ frames = 0
    /\ temp_video = "none"
    /\ output = "absent"
    /\ log = <<>>
    /\ job = "none"
    /\ valid_media = TRUE
    /\ exit = "none"

NextLimits == LimitResources

SpecLimits == InitLimits /\ [][NextLimits]_vars


\* ------------------------------------------------------------- properties
Terminal == {"Done", "Failed", "Cancelled"}
Entry(op, arg) == \E k \in DOMAIN log : log[k].op = op /\ log[k].arg = arg
LastIs(e) == Len(log) > 0 /\ log[Len(log)] = e
WorkspaceGone == ~globals.keep_frames => globals.target_path \notin temp

\* C1: a job that created its workspace and reached a terminal state (Done,
\* Failed or Cancelled) has left no workspace for the target, unless
\* keep-frames was requested.
C1_WorkspaceGoneAtEnd ==
    (job \in Terminal /\ Entry("create_temp", "ok")) => WorkspaceGone

\* C2: once a readiness check of the chain has reported not-ready, the
\* start() call invokes no processor entry point, creates no workspace,
\* extracts no frames and writes no output.
C2_NotReadyRunsNothing ==
    Entry("pre_start", "not ready") =>
        /\ \A k \in DOMAIN log : log[k].op \in {"pre_start", "clean_temp"}
        /\ pc \in {"mainloop", "exited"}
        /\ job \in {"Failed", "Cancelled"}

C2_Witness ==
    /\ Entry("pre_start", "ready")
    /\ Entry("pre_start", "not ready")
    /\ job = "Failed"

\* C3: from the first statement of parse_args on, an interrupt is handled at
\* every point of the run; it ends the process as cancelled, and the last
\* thing done before the exit is clean_temp for the target whenever one is set.
C3_InterruptCleans ==
    /\ (pc # "run" /\ Running) => ENABLED Interrupt
    /\ exit = "cancelled" =>
          /\ pc = "exited"
          /\ job # "running"
          /\ globals.target_path # NoPath =>
                /\ LastIs(Ev("clean_temp", Core, globals.target_path))
                /\ WorkspaceGone

C3_Witness ==
    /\ exit = "cancelled"
    /\ job = "Cancelled"
    /\ Entry("extract_frames", "ok")
    /\ ~Called("get_temp_frame_paths")
    /\ LastIs(Ev("clean_temp", Core, globals.target_path))

\* the canonical name of a host backend: lower case, no suffix
Canonical(provider) == Name(provider.stem, "lower", "none")
\* the positions of the request that name a host backend
Matching == {k \in DOMAIN requested :
                \E h \in Range(available_providers) : Canonical(h) = requested[k]}
NthMatching(n) == CHOOSE k \in Matching : Cardinality({m \in Matching : m < k}) = n - 1

\* C4: decode_execution_providers returns a non-empty list: one host backend
\* for each requested name that is the canonical name of a host backend, in
\* the order of the request, or the CPU backend alone when there is none.
C4_ResolvedProviders ==
    pc = "decoded" =>
        LET resolved == globals.execution_providers IN
        /\ resolved # <<>>
        /\ IF Matching = {}
              THEN resolved = <<CPUExecutionProvider>>
              ELSE /\ Len(resolved) = Cardinality(Matching)
                   /\ \A n \in DOMAIN resolved :
                         /\ resolved[n] \in Range(available_providers)
                         /\ Canonical(resolved[n]) = requested[NthMatching(n)]

C4_Witness ==
    /\ pc = "decoded"
    /\ Len(available_providers) = 2
    /\ Len(requested) = 2
    /\ globals.execution_providers = <<available_providers[2], available_providers[1]>>

\* C5: 'succeeded' is reported only when the file at the output path is a
\* valid image (image path) or a valid video (video path).
C5_StatusFromOutput ==
    /\ Reported("Processing to image succeeded!") => output = "image"
    /\ Reported("Processing to video succeeded!") => output = "video"

\* C6: when extraction produced no frames the job ends Failed on the empty
\* workspace: no process_video, no video assembly, and the workspace is
\* cleaned up.
C6_EmptyExtractionFails ==
    Entry("get_temp_frame_paths", "raised") =>
        /\ ~Called("process_video")
        /\ ~Called("create_video")
        /\ job \in Terminal => (job = "Failed" /\ WorkspaceGone)

ReadinessFailed == Entry("pre_start", "not ready")
WorkspaceFailed ==
    \E op \in {"create_temp", "extract_frames", "get_temp_frame_paths"} : Entry(op, "raised")

\* C7: a readiness-check failure or a workspace creation/extraction failure
\* ends the job as Failed without terminating the hosting process: the
\* process is never ended by such a failure.
C7_FailedJobKeepsProcess ==
    (ReadinessFailed \/ WorkspaceFailed) => exit # "failed"

Flagged == Entry("predict_image", "flagged") \/ Entry("predict_video", "flagged")

\* C8: when the content-safety check flags the target, the job stops there:
\* the only things done are the check, clean_temp and the 'ignored' status.
C8_FlaggedShortCircuits ==
    Flagged =>
        /\ \A k \in DOMAIN log :
              log[k].op \in {"pre_start", "predict_image", "predict_video",
                             "clean_temp", "status"}
        /\ \A k \in DOMAIN log : log[k].op = "status" =>
              log[k].arg = IF has_image_extension(globals.target_path)
                              THEN "Processing to image ignored!"
                              ELSE "Processing to video ignored!"
        /\ Called("status")
        /\ pc \in {"mainloop", "exited"}

C8_Witness ==
    /\ Entry("predict_video", "flagged")
    /\ Reported("Processing to video ignored!")
    /\ temp = {}
    /\ output = "absent"

PastAssembly == pc \in {"handle_video_audio", "clean_temp", "video_status"}

\* C9: the video is encoded once per job, at 30.0 without detect_fps when
\* keep-fps is off and at the detected rate when it is on.
C9_EncodedOnceAtPolicyRate ==
    /\ Count("create_video") <= 1
    /\ PastAssembly => Count("create_video") = 1
    /\ \A k \in DOMAIN log : log[k].op = "create_video" =>
          IF globals.keep_fps
             THEN /\ Count("detect_fps") = 1
                  /\ \A d \in DOMAIN log : log[d].op = "detect_fps" =>
                        d < k /\ log[d].arg = log[k].arg
             ELSE /\ ~Called("detect_fps")
                  /\ log[k].arg = DefaultFps

C9_Witness ==
    /\ globals.keep_fps
    /\ Entry("create_video", "25.0")
    /\ job = "Done"

PastOutputStep == pc \in {"clean_temp", "video_status"}

\* C10: after assembly exactly one output step runs: move_temp alone when
\* keep-audio is off, restore_audio alone (once, with the desync warning when
\* keep-fps is off) when it is on.
C10_OneOutputStep ==
    /\ Count("restore_audio") + Count("move_temp") <= 1
    /\ PastOutputStep => Count("restore_audio") + Count("move_temp") = 1
    /\ Called("move_temp") => ~globals.keep_audio
    /\ Called("restore_audio") =>
          /\ globals.keep_audio
          /\ Reported(IF globals.keep_fps
                         THEN "Restoring audio..."
                         ELSE "Restoring audio might cause issues as fps are not kept...")
    /\ \A k \in DOMAIN log : log[k].op \in {"restore_audio", "move_temp"} =>
          \E c \in 1..(k - 1) : log[c].op = "create_video"

C10_Witness ==
    /\ ~globals.keep_audio
    /\ Entry("move_temp", "ok")
    /\ ~Called("restore_audio")
    /\ job = "Done"


EntryOps == {"process_image", "process_video"}
EntryPoints == {k \in DOMAIN log : log[k].op \in EntryOps}
\* the position in the chain of the entry point logged at k
Round(k) == Cardinality({m \in EntryPoints : m <= k})

\* C11: the entry points run one at a time in the order of the chain: each
\* is preceded by the status scoped to its processor and followed, when it
\* returns, by release_resources; the next entry point comes only after that
\* release, with nothing in between that replaces the image or the frames.
C11_ChainInOrder ==
    \A k \in EntryPoints :
        LET n == Round(k)
            chain == globals.frame_processors
        IN  /\ n <= Len(chain)
            /\ log[k].who = chain[n]
            /\ k > 1 /\ log[k - 1] = Ev("status", chain[n], "Processing...")
            /\ log[k].arg = "ok" =>
                  /\ k + 1 \in DOMAIN log
                  /\ log[k + 1].op = "release_resources"
            /\ n > 1 =>
                  /\ log[k - 2].op = "release_resources"
                  /\ log[k - 3] = Ev(log[k].op, chain[n - 1], "ok")

C11_Witness ==
    /\ Entry("process_video", "ok")
    /\ Cardinality(EntryPoints) = 2
    /\ \A k \in EntryPoints : log[k].who = globals.frame_processors[Round(k)]
    /\ job = "Done"


ImageOps == {"predict_image", "copy2", "process_image"}
VideoOps == {"predict_video", "create_temp", "extract_frames",
             "get_temp_frame_paths", "process_video", "detect_fps",
             "create_video", "restore_audio", "move_temp"}
ImageStatuses == {"Processing to image succeeded!", "Processing to image failed!",
                  "Processing to image ignored!"}
VideoStatuses == {"Processing to video succeeded!", "Processing to video failed!",
                  "Processing to video ignored!", "Creating temporary resources...",
                  "Extracting frames...", "Detecting fps...",
                  "Creating video with detected fps...",
                  "Creating video with 30.0 fps...", "Restoring audio..."}
ImagePath == {"process_image_to_image", "copy", "process_image", "image_status"}
VideoPath == {"process_image_to_video", "create_temp", "extract_frames",
              "get_temp_frame_paths", "process_video", "handle_video_fps",
              "handle_video_audio", "clean_temp", "video_status"}

\* C19: a start() call runs the steps of one path only, the image path for a
\* target with an image extension and the video path otherwise; an image
\* target never gets a workspace, frames, a video assembly or an audio step,
\* and process_image is never called for another target.
C19_OnePathPerStart ==
    LET image == has_image_extension(globals.target_path) IN
    /\ pc \in ImagePath => image
    /\ pc \in VideoPath => ~image
    /\ \A k \in DOMAIN log :
          /\ log[k].op \in VideoOps => ~image
          /\ log[k].op \in ImageOps => image
    /\ \A k \in DOMAIN log :
          log[k].op = "status" /\ log[k].who = Core =>
              /\ log[k].arg \in ImageStatuses => image
              /\ log[k].arg \in VideoStatuses => ~image
    /\ \A path \in ImageTargets : path \notin temp

C19_Witness ==
    /\ has_image_extension(globals.target_path)
    /\ Entry("process_image", "ok")
    /\ job = "Done"
    /\ output = "video"

CopyFailed == Entry("copy2", "error")
ChainInvoked ==
    /\ Count("process_image") = Len(globals.frame_processors)
    /\ \A k \in DOMAIN log : log[k].op = "process_image" => log[k].arg = "ok"

\* C20: a failed copy of the target does not end the job: the processors of
\* the chain are still invoked, the job fails only when one of them raises
\* or the final status says so.
C20_CopyErrorGoesOn ==
    CopyFailed =>
        /\ pc = "image_status" => ChainInvoked
        /\ Reported("Processing to image succeeded!") => ChainInvoked
        /\ Reported("Processing to image failed!") => ChainInvoked
        /\ job = "Failed" =>
              \/ Entry("process_image", "raised")
              \/ Reported("Processing to image failed!")
        /\ job = "Done" => Reported("Processing to image succeeded!")

C20_Witness ==
    /\ CopyFailed
    /\ ChainInvoked
    /\ Reported("Processing to image succeeded!")
    /\ job = "Done"
    /\ output = "absent"


\* a step of start() that ends in destroy(to_quit=False)
DestroyNoQuit ==
    /\ pc \in {"process_image_to_image", "process_image_to_video"}
    /\ job' = "Cancelled"
    /\ Flagged'
NoWorkspace == globals.target_path \notin temp

C12_RequestNormalised ==
    pc = "decoded" =>
        globals.execution_providers =
            decode_execution_providers(encode_execution_providers(requested),
                                       available_providers)


\* C13: release_resources() frees the accelerator cache exactly when the
\* resolved backend list includes the CUDA backend.
C13_CudaFreesCache ==
    \A k \in DOMAIN log :
        log[k].op = "release_resources" =>
            (HostName("cuda") \in Range(globals.execution_providers)
                <=> (k + 1 \in DOMAIN log /\ log[k + 1].op = "empty_cache"))

SingleThreaded(resolved) == \E provider \in Range(resolved) : provider.stem \in {"dml", "rocm"}

\* C14: the thread count suggested for a command line without
\* --execution-threads is 1 when the resolved backend list includes the
\* DirectML or the ROCm backend and 8 otherwise.
C14_ThreadsFromResolved ==
    pc = "handle_deprecated_args" /\ args.execution_threads = <<>> =>
        globals.execution_threads =
            (IF SingleThreaded(globals.execution_providers) THEN 1 ELSE 8)

Exceeds(memory, hard) == hard # Unlimited /\ memory > hard

\* C15: on the rlimit branch the limit applied is the requested ceiling, or
\* the hard limit when the ceiling exceeds it, and the clamp warning is
\* printed in that second case only; an unlimited hard limit is exceeded by
\* no request.
C15_ClampToHardLimit ==
    pc # "limit_resources" /\ host.system = "linux" /\ globals.max_memory # 0 =>
        LET memory == globals.max_memory * GiB IN
        /\ host.applied = <<IF Exceeds(memory, host.hard) THEN host.hard ELSE memory>>
        /\ ClampWarning \in Range(printed) <=> Exceeds(memory, host.hard)

Warned(message) == message \in Range(printed)

\* C16: after parse_args every deprecated alias given on the command line
\* has been written to the field it stands for and has printed its
\* deprecation warning, whatever its value.
C16_AliasesTranslated ==
    pc = "pre_check" =>
        /\ args.source_path_deprecated # NoPath =>
              /\ globals.source_path = args.source_path_deprecated
              /\ Warned("-f and --face are deprecated")
        /\ args.cpu_cores_deprecated # <<>> =>
              /\ Warned("--cpu-cores is deprecated")
              /\ args.gpu_threads_deprecated = <<>> =>
                    globals.execution_threads = args.cpu_cores_deprecated[1]
        /\ args.gpu_vendor_deprecated # NoPath =>
              /\ Warned("--gpu-vendor is deprecated")
              /\ args.gpu_vendor_deprecated \in Vendors =>
                    globals.execution_providers =
                        decode_execution_providers(
                            <<Name(VendorProvider(args.gpu_vendor_deprecated),
                                   "lower", "none")>>,
                            available_providers)
        /\ args.gpu_threads_deprecated # <<>> =>
              /\ Warned("--gpu-threads is deprecated")
              /\ globals.execution_threads = args.gpu_threads_deprecated[1]

Limits == <<globals.execution_providers, globals.execution_threads,
            globals.max_memory, host.applied>>
Startup == {"parse_args", "handle_deprecated_args", "limit_resources"}

\* C18: the backend list, the thread count, the memory ceiling and the limit
\* applied change only in a step of parse_args, handle_deprecated_args or
\* limit_resources; start() and every step after it leave them as they are.
C18_LimitsSetAtStartup ==
    [][pc \notin Startup => UNCHANGED Limits]_vars

C18_Witness ==
    /\ job = "Done"
    /\ globals.target_path \in VideoTargets
    /\ output = "image"
    /\ host.applied # <<>>
    /\ globals.execution_providers = <<HostName("cuda")>>

====
